---- MODULE Spec2Model ----
(***************************************************************************)
(* FinLab MCP server (workers/src/index.ts): the fetch handler, the        *)
(* JSON-RPC dispatcher handleMcpRequest, the tool dispatcher               *)
(* handleToolCall and the four document tools over the DOCS mapping.       *)
(*                                                                         *)
(* A JavaScript string is a sequence of tokens.  The characters that the   *)
(* code inspects ("\n", "#", " ", letters) are one token each; a string    *)
(* literal of the source that the code only concatenates is one token.     *)
(* A JavaScript value is a record [t, s]: its type tag and, for a string   *)
(* or a number, its text.                                                  *)
(***************************************************************************)
EXTENDS Integers, Sequences, FiniteSets, TLC

VARIABLES
  DOCS,       \* the document store: its entries in Object.entries order
  TOOLS,      \* the tool descriptors
  pc,         \* where the fetch invocation is: "idle", "json", "responded"
  req,        \* the HTTP request of the invocation
  resp,       \* the HTTP response it returned
  startDocs,  \* history: the store as it was loaded
  served      \* history: an earlier invocation has completed

vars == <<DOCS, TOOLS, pc, req, resp, startDocs, served>>

(***************************************************************************)
(* Bounds of the model.                                                    *)
(***************************************************************************)
\* The largest number of documents in the store.
MaxDocs == 2
\* The number of lines of the long document of the corpus.
LongLines == 13

(***************************************************************************)
(* JavaScript values.                                                      *)
(***************************************************************************)
Str(s) == [t |-> "string", s |-> s]
Num(s) == [t |-> "number", s |-> s]
Undefined == [t |-> "undefined", s |-> <<>>]
Null == [t |-> "null", s |-> <<>>]
Function == [t |-> "function", s |-> <<>>]

\* String(v), as a template literal `${v}` or a property key converts v.
ToString_(v) ==
  CASE v.t = "string" -> v.s
    [] v.t = "number" -> v.s
    [] v.t = "undefined" -> <<"undefined">>
    [] v.t = "null" -> <<"null">>
    [] OTHER -> <<"function () { [native code] }">>

\* v || d
OrElse(v, d) ==
  IF v.t \in {"undefined", "null"} \/ (v.t = "string" /\ v.s = <<>>) THEN d ELSE v

(***************************************************************************)
(* String methods.                                                         *)
(***************************************************************************)
Min(a, b) == IF a < b THEN a ELSE b
Max(a, b) == IF a > b THEN a ELSE b

LowerChar(c) == IF c = "A" THEN "a" ELSE IF c = "B" THEN "b" ELSE c

\* s.toLowerCase()
toLowerCase(s) == [i \in 1..Len(s) |-> LowerChar(s[i])]

\* the least index >= from at which sep occurs in s, or 0 (s.indexOf)
RECURSIVE indexOf(_, _, _)
indexOf(s, sep, from) ==
  IF from + Len(sep) - 1 > Len(s) THEN 0
  ELSE IF SubSeq(s, from, from + Len(sep) - 1) = sep THEN from
  ELSE indexOf(s, sep, from + 1)

\* s.includes(q)
includes(s, q) == indexOf(s, q, 1) # 0

\* s.split(sep), sep not empty
RECURSIVE split(_, _)
split(s, sep) ==
  LET i == indexOf(s, sep, 1) IN
  IF i = 0 THEN <<s>>
  ELSE <<SubSeq(s, 1, i - 1)>> \o split(SubSeq(s, i + Len(sep), Len(s)), sep)

\* parts.join(sep)
RECURSIVE join(_, _)
join(parts, sep) ==
  IF Len(parts) = 0 THEN <<>>
  ELSE IF Len(parts) = 1 THEN parts[1]
  ELSE parts[1] \o sep \o join(Tail(parts), sep)

\* s.trim(); the whitespace of the alphabet is " " and "\n"
IsSpace(c) == c \in {" ", "\n"}
RECURSIVE trimStart(_)
trimStart(s) ==
  IF Len(s) > 0 /\ IsSpace(s[1]) THEN trimStart(Tail(s)) ELSE s
RECURSIVE trimEnd(_)
trimEnd(s) ==
  IF Len(s) > 0 /\ IsSpace(s[Len(s)]) THEN trimEnd(SubSeq(s, 1, Len(s) - 1)) ELSE s
trim(s) == trimEnd(trimStart(s))

\* s.replace(/^#+\s*/, '')
RECURSIVE dropHashes(_)
dropHashes(s) == IF Len(s) > 0 /\ s[1] = "#" THEN dropHashes(Tail(s)) ELSE s
stripHeading(s) ==
  IF Len(s) > 0 /\ s[1] = "#" THEN trimStart(dropHashes(s)) ELSE s

(***************************************************************************)
(* The DOCS mapping: the sequence of its own entries [name, content] in    *)
(* Object.entries order.  DOCS is an ordinary object, so the `in` operator *)
(* also finds the properties it inherits from Object.prototype.            *)
(***************************************************************************)
keys(docs) == [i \in 1..Len(docs) |-> docs[i].name]

hasOwn(docs, key) == \E i \in 1..Len(docs) : docs[i].name = key

\* Object.prototype's properties among the names the model uses
ObjectPrototypeKeys == {<<"toString">>, <<"constructor">>}

\* key in docs
In(docs, key) == hasOwn(docs, key) \/ key \in ObjectPrototypeKeys

\* docs[key]
Get(docs, key) ==
  IF hasOwn(docs, key)
    THEN Str(docs[CHOOSE i \in 1..Len(docs) : docs[i].name = key].content)
  ELSE IF key \in ObjectPrototypeKeys THEN Function
  ELSE Undefined

\* a completed call: it returned v, or it threw
Return(v) == [threw |-> FALSE, v |-> v]
Throw == [threw |-> TRUE, v |-> Undefined]

(***************************************************************************)
(* Tool implementations.                                                   *)
(***************************************************************************)
\* lines.find(l => l.trim())?.replace(/^#+\s*/, '').trim() || ''
RECURSIVE firstNonBlank(_)
firstNonBlank(lines) ==
  IF Len(lines) = 0 THEN <<>>
  ELSE IF trim(lines[1]) # <<>> THEN trim(stripHeading(lines[1]))
  ELSE firstNonBlank(Tail(lines))

docEntry(d) ==
  <<"- **">> \o d.name \o <<"**: ">> \o firstNonBlank(split(d.content, <<"\n">>))

listDocuments(docs) ==
  Return(Str(<<"## Available FinLab Documents\n\n">>
             \o join([i \in 1..Len(docs) |-> docEntry(docs[i])], <<"\n">>)))

getDocument(docs, docName) ==
  IF In(docs, ToString_(docName)) THEN Return(Get(docs, ToString_(docName)))
  ELSE Return(Str(<<"Document '">> \o ToString_(docName)
                  \o <<"' not found.\n\nAvailable documents: ">>
                  \o join(keys(docs), <<", ">>)))

\* the window of a hit on line i (0-based): lines.slice(start, end)
windowStart(i) == Max(0, i - 2)
\* mutant: the window ends 3 lines after the match
windowEndShort(len, i) == Min(len, i + 4)
windowEnd(len, i) == Min(len, i + 6)
window(lines, i) ==
  SubSeq(lines, windowStart(i) + 1, windowEnd(Len(lines), i))

\* the inner loop of searchDocs from line i (0-based) on
RECURSIVE scanLines(_, _, _, _)
scanLines(name, lines, queryLower, i) ==
  IF i >= Len(lines) THEN <<>>
  ELSE (IF includes(toLowerCase(lines[i + 1]), queryLower)
          THEN <<[file |-> name, line |-> i + 1,
                  match |-> join(window(lines, i), <<"\n">>)]>>
          ELSE <<>>)
       \o scanLines(name, lines, queryLower, i + 1)

\* the outer loop of searchDocs from entry k on
RECURSIVE scanDocs(_, _, _)
scanDocs(docs, queryLower, k) ==
  IF k > Len(docs) THEN <<>>
  ELSE (IF ~includes(toLowerCase(docs[k].content), queryLower) THEN <<>>
        ELSE scanLines(docs[k].name, split(docs[k].content, <<"\n">>), queryLower, 0))
       \o scanDocs(docs, queryLower, k + 1)

\* results.slice(0, 10)
MaxRendered == 10
\* mutant: the cap is forgotten
renderedUncapped(results) == results
rendered(results) == SubSeq(results, 1, Min(MaxRendered, Len(results)))

\* <fence> stands for the three backquotes of a Markdown code fence
renderHit(r) ==
  <<"### ">> \o r.file \o <<" (line ", ToString(r.line), ")\n<fence>\n">>
  \o r.match \o <<"\n<fence>\n\n">>

RECURSIVE renderHits(_)
renderHits(rs) ==
  IF Len(rs) = 0 THEN <<>> ELSE renderHit(rs[1]) \o renderHits(Tail(rs))

searchDocs(docs, query) ==
  IF query.t # "string" THEN Throw   \* query.toLowerCase is not a function
  ELSE LET results == scanDocs(docs, toLowerCase(query.s), 1) IN
       IF Len(results) = 0
         THEN Return(Str(<<"No results found for '">> \o query.s \o <<"'">>))
       ELSE Return(Str(<<"## Search Results: ">> \o query.s \o <<"\n", "\n">>
                       \o renderHits(rendered(results))))

All == <<"a", "l", "l">>
FactorExamples == <<"factor-examples">>
Heading == <<"\n", "#", "#", " ">>

\* matching.map(s => '## ' + s)
restore(sections) == [k \in 1..Len(sections) |-> <<"#", "#", " ">> \o sections[k]]

\* sections.filter(s => s.toLowerCase().includes(factorType.toLowerCase()))
RECURSIVE filterSections(_, _)
filterSections(sections, typeLower) ==
  IF Len(sections) = 0 THEN <<>>
  ELSE (IF includes(toLowerCase(sections[1]), typeLower)
          THEN <<sections[1]>> ELSE <<>>)
       \o filterSections(Tail(sections), typeLower)

getFactorExamples(docs, factorTypeArg) ==
  LET factorType == IF factorTypeArg.t = "undefined" THEN Str(All) ELSE factorTypeArg
      content == Get(docs, FactorExamples)
  IN
  IF content.t = "undefined" \/ content.s = <<>>      \* !content
    THEN Return(Str(<<"factor-examples not found">>))
  ELSE IF factorType = Str(All) THEN Return(content)
  ELSE IF factorType.t # "string" THEN Throw  \* factorType.toLowerCase is not a function
  ELSE LET matching == filterSections(split(content.s, Heading),
                                      toLowerCase(factorType.s)) IN
       IF Len(matching) = 0
         THEN Return(Str(<<"No examples found for factor type '">> \o factorType.s
                         \o <<"'. Try: value, momentum, technical, quality, ml">>))
       ELSE Return(Str(join(restore(matching), <<"\n", "\n">>)))

NoArgs == [doc_name |-> Undefined, query |-> Undefined, factor_type |-> Undefined]

\* mutant: an unknown tool name throws
handleToolCallThrowing(docs, name, args) ==
  CASE name = Str(<<"list_documents">>) -> listDocuments(docs)
    [] name = Str(<<"get_document">>) -> getDocument(docs, args.doc_name)
    [] name = Str(<<"search_finlab_docs">>) -> searchDocs(docs, args.query)
    [] name = Str(<<"get_factor_examples">>) ->
         getFactorExamples(docs, OrElse(args.factor_type, Str(All)))
    [] OTHER -> Throw

handleToolCall(docs, name, args) ==
  CASE name = Str(<<"list_documents">>) -> listDocuments(docs)
    [] name = Str(<<"get_document">>) -> getDocument(docs, args.doc_name)
    [] name = Str(<<"search_finlab_docs">>) -> searchDocs(docs, args.query)
    [] name = Str(<<"get_factor_examples">>) ->
         getFactorExamples(docs, OrElse(args.factor_type, Str(All)))
    [] OTHER -> Return(Str(<<"Unknown tool: ">> \o ToString_(name)))

(***************************************************************************)
(* Tool descriptors and response envelopes.                                *)
(***************************************************************************)
ToolList(docs) ==
  << [name |-> <<"list_documents">>,
      description |-> <<"List all available FinLab documentation files">>,
      properties |-> <<>>, required |-> <<>>],
     [name |-> <<"get_document">>,
      description |-> <<"Get the full content of a FinLab documentation file">>,
      properties |-> << <<"doc_name">>
                        \o <<"Name of the document (without .md extension). Available: ">>
                        \o join(keys(docs), <<", ">>) >>,
      required |-> << <<"doc_name">> >>],
     [name |-> <<"search_finlab_docs">>,
      description |-> <<"Search for a keyword or phrase in all FinLab documentation">>,
      properties |-> << <<"query">> >>, required |-> << <<"query">> >>],
     [name |-> <<"get_factor_examples">>,
      description |-> <<"Get factor/strategy examples from the documentation">>,
      properties |-> << <<"factor_type">> >>, required |-> <<>>] >>

NoResult == [kind |-> "absent", info |-> <<>>, tools |-> <<>>, content |-> <<>>]
NoError == [present |-> FALSE, code |-> 0, message |-> <<>>]

Envelope(id, result, error) == [id |-> id, result |-> result, error |-> error]

handleMcpRequest(docs, tools, request) ==
  CASE request.method = "initialize" ->
         Return(Envelope(request.id,
                         [kind |-> "initialize",
                          info |-> <<"2024-11-05", "finlab-docs", "1.0.0">>,
                          tools |-> <<>>, content |-> <<>>],
                         NoError))
    [] request.method = "tools/list" ->
         Return(Envelope(request.id,
                         [kind |-> "tools", info |-> <<>>, tools |-> tools,
                          content |-> <<>>],
                         NoError))
    [] request.method = "tools/call" ->
         IF ~request.params.present THEN Throw   \* params is undefined
         ELSE LET toolName == request.params.name
                  toolArgs == IF request.params.arguments.present
                                THEN request.params.arguments.map ELSE NoArgs
                  content == handleToolCall(docs, toolName, toolArgs)
              IN IF content.threw THEN Throw
                 ELSE Return(Envelope(request.id,
                                      [kind |-> "content", info |-> <<>>, tools |-> <<>>,
                                       content |-> <<[type |-> "text", text |-> content.v]>>],
                                      NoError))
    [] OTHER ->
         Return(Envelope(request.id, NoResult,
                         [present |-> TRUE, code |-> -32601,
                          message |-> <<"Method not found: ", request.method>>]))

(***************************************************************************)
(* The document stores and the requests the model draws from.              *)
(***************************************************************************)
Empty == <<>>
\* "b\nA\nb": three lines, the second one matches "a"
Example == <<"b", "\n", "A", "\n", "b">>
\* LongLines lines "a" or "A", every fifth one "b"
LongLine(k) == IF k % 5 = 0 THEN <<"b">> ELSE IF k % 2 = 0 THEN <<"A">> ELSE <<"a">>
Long == join([k \in 1..LongLines |-> LongLine(k)], <<"\n">>)
\* "b\n## a\n## A b": text before the first heading, then two sections
Preamble == <<"b">> \o Heading \o <<"a">> \o Heading \o <<"A", " ", "b">>
\* "## a\n## b": the document starts with a heading
Headed == <<"#", "#", " ", "a">> \o Heading \o <<"b">>

Texts == {Empty, Example, Long, Preamble, Headed}
Names == {FactorExamples, <<"api">>, <<"API">>}

Entries == [name : Names, content : Texts]
Stores ==
  UNION {{d \in [1..n -> Entries] :
            \A i, j \in 1..n : i # j => d[i].name # d[j].name} : n \in 0..MaxDocs}

Ids == {Num(<<"1">>), Str(<<"x">>)}
Methods == {"initialize", "tools/list", "tools/call", "ping"}
ToolNames == {<<"list_documents">>, <<"get_document">>, <<"search_finlab_docs">>,
              <<"get_factor_examples">>}

DocNameValues == {Str(n) : n \in Names} \cup {Str(<<"toString">>)}
QueryValues == {Str(<<>>), Str(<<"a">>), Str(<<"A">>), Str(<<"b">>), Str(<<"z">>),
                Str(<<"a", "\n", "b">>), Num(<<"5">>)}
FactorValues == {Str(All), Str(<<>>), Str(<<"a">>), Str(<<"A">>), Str(<<"b">>),
                 Str(<<"z">>)}

Arguments(map) == [present |-> TRUE, map |-> map]
NoArguments == [present |-> FALSE, map |-> NoArgs]
ArgumentsFor(name) ==
  {NoArguments, Arguments(NoArgs)}
  \cup (CASE name = Str(<<"get_document">>) ->
               {Arguments([NoArgs EXCEPT !.doc_name = v]) : v \in DocNameValues}
          [] name = Str(<<"search_finlab_docs">>) ->
               {Arguments([NoArgs EXCEPT !.query = v]) : v \in QueryValues}
          [] name = Str(<<"get_factor_examples">>) ->
               {Arguments([NoArgs EXCEPT !.factor_type = v]) : v \in FactorValues}
          [] OTHER -> {})

NoParams == [present |-> FALSE, name |-> Undefined, arguments |-> NoArguments]
CallParams ==
  {NoParams}
  \cup UNION {{[present |-> TRUE, name |-> n, arguments |-> a] : a \in ArgumentsFor(n)} :
                n \in {Str(t) : t \in ToolNames} \cup {Str(<<"bogus">>), Undefined}}

\* a body request.json() rejects, and the envelopes it parses
Unparsable == [parsed |-> FALSE, id |-> Undefined, method |-> "", params |-> NoParams]
Envelopes ==
  UNION {{[parsed |-> TRUE, id |-> i, method |-> m, params |-> p] :
            p \in IF m = "tools/call" THEN CallParams ELSE {NoParams}} :
           <<i, m>> \in Ids \X Methods}
Bodies == {Unparsable} \cup Envelopes

HttpMethods == {"GET", "POST", "OPTIONS"}
McpPaths == {"/mcp", "/sse"}
HealthPaths == {"/health", "/"}
OtherPaths == {"/docs"}

(***************************************************************************)
(* The fetch handler.                                                      *)
(***************************************************************************)
NoEnvelope == Envelope(Undefined, NoResult, NoError)
Response(status, kind, envelope) ==
  [status |-> status, kind |-> kind, envelope |-> envelope]
NoResponse == Response(0, "none", NoEnvelope)
NoRequest == [path |-> "", method |-> "", body |-> Unparsable]

\* JSON.stringify leaves out a property whose value is a function
stringifyValue(v) == IF v.t = "function" THEN Undefined ELSE v
stringify(e) ==
  [e EXCEPT !.result.content =
     [k \in 1..Len(e.result.content) |->
        [e.result.content[k] EXCEPT !.text = stringifyValue(e.result.content[k].text)]]]

ParseError ==
  Response(400, "jsonrpc",
           Envelope(Null, NoResult,
                    [present |-> TRUE, code |-> -32700, message |-> <<"Parse error">>]))

\* the try block of the MCP endpoint, once request.json() has settled
mcpResponse(docs, tools, body) ==
  IF ~body.parsed THEN ParseError
  ELSE LET r == handleMcpRequest(docs, tools, body) IN
       IF r.threw THEN ParseError
       ELSE Response(200, "jsonrpc", stringify(r.v))

Init ==
  /\ DOCS \in Stores
  /\ TOOLS = ToolList(DOCS)
  /\ startDocs = DOCS
  /\ pc = "idle"
  /\ req = NoRequest
  /\ resp = NoResponse
  /\ served = FALSE

\* GET / or /health (any method): the health check
Health ==
  /\ pc = "idle"
  /\ \E p \in HealthPaths, m \in HttpMethods :
       /\ req' = [path |-> p, method |-> m, body |-> Unparsable]
       /\ resp' = Response(200, "health", NoEnvelope)
  /\ pc' = "responded"
  /\ UNCHANGED <<DOCS, TOOLS, startDocs, served>>

\* /mcp or /sse with a method other than POST
MethodNotAllowed ==
  /\ pc = "idle"
  /\ \E p \in McpPaths, m \in HttpMethods \ {"POST"} :
       /\ req' = [path |-> p, method |-> m, body |-> Unparsable]
       /\ resp' = Response(405, "text", NoEnvelope)
  /\ pc' = "responded"
  /\ UNCHANGED <<DOCS, TOOLS, startDocs, served>>

\* POST /mcp or /sse: the handler awaits request.json()
McpReceive ==
  /\ pc = "idle"
  /\ \E p \in McpPaths, b \in Bodies :
       req' = [path |-> p, method |-> "POST", body |-> b]
  /\ resp' = NoResponse
  /\ pc' = "json"
  /\ UNCHANGED <<DOCS, TOOLS, startDocs, served>>

\* mutant: answering drops the first document from the store
McpRespondDropping ==
  /\ pc = "json"
  /\ resp' = mcpResponse(DOCS, TOOLS, req.body)
  /\ pc' = "responded"
  /\ DOCS' = IF Len(DOCS) > 0 THEN Tail(DOCS) ELSE DOCS
  /\ UNCHANGED <<TOOLS, req, startDocs, served>>

\* request.json() settled: dispatch and answer
McpRespond ==
  /\ pc = "json"
  /\ resp' = mcpResponse(DOCS, TOOLS, req.body)
  /\ pc' = "responded"
  /\ UNCHANGED <<DOCS, TOOLS, req, startDocs, served>>

\* OPTIONS on any other path: the CORS preflight
Preflight ==
  /\ pc = "idle"
  /\ \E p \in OtherPaths :
       /\ req' = [path |-> p, method |-> "OPTIONS", body |-> Unparsable]
       /\ resp' = Response(200, "preflight", NoEnvelope)
  /\ pc' = "responded"
  /\ UNCHANGED <<DOCS, TOOLS, startDocs, served>>

NotFound ==
  /\ pc = "idle"
  /\ \E p \in OtherPaths, m \in HttpMethods \ {"OPTIONS"} :
       /\ req' = [path |-> p, method |-> m, body |-> Unparsable]
       /\ resp' = Response(404, "text", NoEnvelope)
  /\ pc' = "responded"
  /\ UNCHANGED <<DOCS, TOOLS, startDocs, served>>

\* the invocation is over: its request and response are gone, and the
\* worker waits for the next request with the module state it has
Finish ==
  /\ pc = "responded"
  /\ pc' = "idle"
  /\ req' = NoRequest
  /\ resp' = NoResponse
  /\ served' = TRUE
  /\ UNCHANGED <<DOCS, TOOLS, startDocs>>

Next ==
  \/ Health
  \/ MethodNotAllowed
  \/ McpReceive
  \/ McpRespond
  \/ Preflight
  \/ NotFound
  \/ Finish

Spec == Init /\ [][Next]_vars

(***************************************************************************)
(* Reading a request and its response.                                     *)
(***************************************************************************)
\* the invocation answered a POST to the MCP endpoint
McpAnswered == pc = "responded" /\ req.path \in McpPaths /\ req.method = "POST"
\* ... whose body parsed to an envelope
EnvelopeAnswered == McpAnswered /\ req.body.parsed
\* ... a tools/call that carries params naming the tool
CallAnswered(tool) ==
  /\ EnvelopeAnswered
  /\ req.body.method = "tools/call"
  /\ req.body.params.present
  /\ req.body.params.name = tool
\* the arguments handleToolCall receives
CallArgs ==
  IF req.body.params.arguments.present THEN req.body.params.arguments.map ELSE NoArgs

HasResult == resp.envelope.result.kind # "absent"
HasError == resp.envelope.error.present
\* a success envelope with a single-element content list of type text
TextResult ==
  /\ resp.kind = "jsonrpc"
  /\ resp.envelope.result.kind = "content"
  /\ ~HasError
  /\ Len(resp.envelope.result.content) = 1
  /\ resp.envelope.result.content[1].type = "text"
\* the text of that element
Text == resp.envelope.result.content[1].text

\* the lines of entry k of the store
LinesOf(k) == split(DOCS[k].content, <<"\n">>)
\* every matching line, as <<entry, line number>>
MatchSet(q) ==
  UNION {LET lines == LinesOf(k)
         IN {<<k, n>> : n \in {m \in 1..Len(lines) :
                                 includes(toLowerCase(lines[m]), toLowerCase(q))}} :
         k \in 1..Len(DOCS)}
Before(a, b) == a[1] < b[1] \/ (a[1] = b[1] /\ a[2] < b[2])
\* a set of such pairs in document order, then line order
RECURSIVE InOrder(_)
InOrder(S) ==
  IF S = {} THEN <<>>
  ELSE LET m == CHOOSE a \in S : \A b \in S \ {a} : Before(a, b)
       IN <<m>> \o InOrder(S \ {m})

\* the hits a search report renders, read back from its text
HitStarts(text) ==
  SelectSeq([p \in 1..Len(text) |-> p], LAMBDA p : text[p] = "### ")
ReadHit(text, p) ==
  LET q == indexOf(text, <<" (line ">>, p)
      r == indexOf(text, <<"\n<fence>\n\n">>, q)
  IN [file |-> SubSeq(text, p + 1, q - 1), line |-> text[q + 1],
      match |-> SubSeq(text, q + 3, r - 1)]
ReadHits(text) ==
  LET starts == HitStarts(text) IN [j \in 1..Len(starts) |-> ReadHit(text, starts[j])]

\* a search_finlab_docs call with a string query was answered
SearchAnswered ==
  CallAnswered(Str(<<"search_finlab_docs">>)) /\ CallArgs.query.t = "string"

NoResultsText(q) == Str(<<"No results found for '">> \o q \o <<"'">>)

(***************************************************************************)
(* C1: every response envelope carries exactly one of result and error;    *)
(* for initialize, tools/list and tools/call it is the result, for every   *)
(* other method the error -32601 whose message names the method.           *)
(***************************************************************************)
C1_ResultOrErrorByMethod ==
  EnvelopeAnswered =>
    /\ HasResult # HasError
    /\ IF req.body.method \in {"initialize", "tools/list", "tools/call"}
         THEN HasResult /\ ~HasError
         ELSE /\ HasError /\ ~HasResult
              /\ resp.envelope.error.code = -32601
              /\ resp.envelope.error.message = <<"Method not found: ", req.body.method>>

(***************************************************************************)
(* C2: a well-formed envelope is answered with an envelope of the same id; *)
(* the -32700 envelope with id null answers only a body that did not parse.*)
(***************************************************************************)
C2_TotalSameId ==
  McpAnswered =>
    IF req.body.parsed
      THEN /\ resp.envelope.id = req.body.id
           /\ ~(HasError /\ resp.envelope.error.code = -32700)
      ELSE resp = ParseError

(***************************************************************************)
(* C3: an unknown tool, a get_document for a name not in the store, a      *)
(* search with zero hits and a factor filter that matches no section are   *)
(* answered with a success envelope whose result is one text element; for  *)
(* the unknown tool the text says that the tool is unknown.                *)
(***************************************************************************)
UnknownToolCall ==
  /\ EnvelopeAnswered /\ req.body.method = "tools/call" /\ req.body.params.present
  /\ req.body.params.name \notin {Str(t) : t \in ToolNames}
MissingDocumentCall ==
  /\ CallAnswered(Str(<<"get_document">>))
  /\ ~hasOwn(DOCS, ToString_(CallArgs.doc_name))
ZeroHitsCall == SearchAnswered /\ MatchSet(CallArgs.query.s) = {}
UnmatchedFactorCall ==
  /\ CallAnswered(Str(<<"get_factor_examples">>))
  /\ CallArgs.factor_type.t = "string"
  /\ CallArgs.factor_type.s \notin {<<>>, All}
  /\ \A k \in 1..Len(DOCS) :
       DOCS[k].name = FactorExamples =>
         \A sec \in 1..Len(split(DOCS[k].content, Heading)) :
           ~includes(toLowerCase(split(DOCS[k].content, Heading)[sec]),
                     toLowerCase(CallArgs.factor_type.s))

C3_NonFindingsAreResults ==
  /\ (UnknownToolCall \/ MissingDocumentCall \/ ZeroHitsCall \/ UnmatchedFactorCall)
       => TextResult
  /\ UnknownToolCall
       => Text = Str(<<"Unknown tool: ">> \o ToString_(req.body.params.name))

C3_Witness ==
  /\ UnknownToolCall /\ req.body.params.name = Str(<<"bogus">>)
  /\ TextResult /\ Text = Str(<<"Unknown tool: ", "bogus">>)
  /\ Len(DOCS) > 0

(***************************************************************************)
(* C4: a search with the empty query returns the "no results" message,     *)
(* like a query with zero hits, whatever the store.                        *)
(***************************************************************************)
C4_EmptyQueryNoResults ==
  (SearchAnswered /\ CallArgs.query.s = <<>>) => (TextResult /\ Text = NoResultsText(<<>>))

(***************************************************************************)
(* C5: a search renders at most 10 hits: the first 10 (or all, if fewer)   *)
(* of the matching lines taken in document order and then by ascending     *)
(* line number, one hit per matching line.                                 *)
(***************************************************************************)
FirstMatches(q) ==
  LET all == InOrder(MatchSet(q))
  IN [j \in 1..Min(10, Len(all)) |->
        [file |-> DOCS[all[j][1]].name, line |-> ToString(all[j][2])]]

C5_FirstTenInOrder ==
  SearchAnswered =>
    /\ TextResult /\ Text.t = "string"
    /\ LET hits == ReadHits(Text.s)
       IN /\ Len(hits) <= 10
          /\ [j \in 1..Len(hits) |-> [file |-> hits[j].file, line |-> hits[j].line]]
               = FirstMatches(CallArgs.query.s)

C5_Witness ==
  /\ SearchAnswered /\ TextResult
  /\ Cardinality(MatchSet(CallArgs.query.s)) > 10
  /\ Len(ReadHits(Text.s)) = 10
  /\ \E j \in 1..9 : ReadHits(Text.s)[j].file # ReadHits(Text.s)[j + 1].file

(***************************************************************************)
(* C6: a hit for a match on 0-based line i reports line i+1 and a window   *)
(* of the matched line with at most 2 lines before it and at most 3 lines  *)
(* after it, clipped to the document.                                      *)
(***************************************************************************)
\* hit h is on line n of the entry named file, whose lines are given, and
\* its window is lines from..to of the entry
HitIs(h, file, lines, n, from, to) ==
  /\ h.file = file
  /\ h.line = ToString(n)
  /\ h.match = join(SubSeq(lines, from, to), <<"\n">>)
  /\ includes(toLowerCase(lines[n]), toLowerCase(CallArgs.query.s))

C6_WindowTwoBeforeThreeAfter ==
  SearchAnswered =>
    LET hits == ReadHits(Text.s)
    IN \A j \in 1..Len(hits) :
         \E k \in 1..Len(DOCS) :
           LET lines == LinesOf(k)
           IN \E n \in 1..Len(lines) :
                \E from \in Max(1, n - 2)..n, to \in n..Min(Len(lines), n + 3) :
                  HitIs(hits[j], DOCS[k].name, lines, n, from, to)

(***************************************************************************)
(* C6, amended: the window is the matched line with the 2 lines before it  *)
(* and the 5 lines after it, clipped to the document.                      *)
(***************************************************************************)
C6_WindowTwoBeforeFiveAfter ==
  SearchAnswered =>
    LET hits == ReadHits(Text.s)
    IN \A j \in 1..Len(hits) :
         \E k \in 1..Len(DOCS) :
           LET lines == LinesOf(k)
           IN \E n \in 1..Len(lines) :
                HitIs(hits[j], DOCS[k].name, lines, n,
                      Max(1, n - 2), Min(Len(lines), n + 5))

\* a hit in the middle of a long document (a full window of 8 lines) next to
\* one at its start (clipped)
C6_Witness ==
  /\ SearchAnswered /\ TextResult
  /\ \E j \in 1..Len(ReadHits(Text.s)) :
       Len(split(ReadHits(Text.s)[j].match, <<"\n">>)) = 8
  /\ \E j \in 1..Len(ReadHits(Text.s)) :
       /\ ReadHits(Text.s)[j].line = "1"
       /\ Len(split(ReadHits(Text.s)[j].match, <<"\n">>)) = 6

(***************************************************************************)
(* C7: get_document returns a document's full text if and only if the name *)
(* is exactly one of the store's names; for every other name it returns    *)
(* the not-found message that lists the valid names.                       *)
(***************************************************************************)
NotFoundText(name) ==
  Str(<<"Document '">> \o name \o <<"' not found.\n\nAvailable documents: ">>
      \o join(keys(DOCS), <<", ">>))

C7_ExactKeyOrNotFound ==
  (CallAnswered(Str(<<"get_document">>)) /\ CallArgs.doc_name.t = "string") =>
    /\ TextResult
    /\ IF \E k \in 1..Len(DOCS) : DOCS[k].name = CallArgs.doc_name.s
         THEN \E k \in 1..Len(DOCS) :
                DOCS[k].name = CallArgs.doc_name.s /\ Text = Str(DOCS[k].content)
         ELSE Text = NotFoundText(CallArgs.doc_name.s)

(***************************************************************************)
(* C8: when the store holds factor-examples, whatever its text,            *)
(* get_factor_examples with factor type "all" or none returns that text    *)
(* unmodified; "not found" is returned only when the document is absent.   *)
(***************************************************************************)
C8_AllReturnsTextUnmodified ==
  (/\ CallAnswered(Str(<<"get_factor_examples">>))
   /\ CallArgs.factor_type \in {Str(All), Undefined}) =>
    /\ TextResult
    /\ \A k \in 1..Len(DOCS) :
         DOCS[k].name = FactorExamples => Text = Str(DOCS[k].content)
    /\ Text = Str(<<"factor-examples not found">>)
         => ~\E k \in 1..Len(DOCS) : DOCS[k].name = FactorExamples

(***************************************************************************)
(* C9: request handling is stateless: no step changes the document store   *)
(* or the tool descriptors, and the answer to a request after any sequence *)
(* of requests is the answer the freshly loaded store gives to it.         *)
(***************************************************************************)
C9_Stateless ==
  [][/\ DOCS' = DOCS
     /\ TOOLS' = TOOLS
     /\ (pc' = "responded" /\ req'.path \in McpPaths /\ req'.method = "POST")
          => resp' = mcpResponse(startDocs, ToolList(startDocs), req'.body)]_vars

\* a document is fetched after an earlier invocation has completed
C9_Witness ==
  /\ served
  /\ CallAnswered(Str(<<"get_document">>))
  /\ TextResult
  /\ \E k \in 1..Len(DOCS) :
       /\ CallArgs.doc_name = Str(DOCS[k].name)
       /\ DOCS[k].content # <<>>
       /\ Text = Str(DOCS[k].content)

(***************************************************************************)
(* C10: for a factor type other than "all" that matches a section,         *)
(* get_factor_examples returns the matching sections in document order,    *)
(* separated by a blank line, each reading exactly as it does in the       *)
(* document: the "## " prefix is restored only where splitting removed it. *)
(***************************************************************************)
\* section j of the text as it reads in the document
OriginalSection(content, j) ==
  IF j = 1 THEN split(content, Heading)[1]
  ELSE <<"#", "#", " ">> \o split(content, Heading)[j]
MatchingSections(content, type) ==
  SelectSeq([j \in 1..Len(split(content, Heading)) |-> j],
            LAMBDA j : includes(toLowerCase(split(content, Heading)[j]),
                                toLowerCase(type)))
ExpectedExamples(content, type) ==
  LET m == MatchingSections(content, type)
  IN join([i \in 1..Len(m) |-> OriginalSection(content, m[i])], <<"\n", "\n">>)

C10_SectionsAsInDocument ==
  (/\ CallAnswered(Str(<<"get_factor_examples">>))
   /\ CallArgs.factor_type.t = "string"
   /\ CallArgs.factor_type.s \notin {<<>>, All}) =>
    \A k \in 1..Len(DOCS) :
      (/\ DOCS[k].name = FactorExamples
       /\ Len(MatchingSections(DOCS[k].content, CallArgs.factor_type.s)) > 0)
        => /\ TextResult
           /\ Text = Str(ExpectedExamples(DOCS[k].content, CallArgs.factor_type.s))

====
